---- MODULE Spec2Model ----
(***************************************************************************)
(* Model of examples/flask-kitchensink/app.py: the module-level start-up,  *)
(* the /callback endpoint, the two message handlers and call_dify_api, the *)
(* streamed-response aggregator.                                           *)
(*                                                                         *)
(* Texts are sequences of tokens, so that concatenation is \o and the      *)
(* empty string is << >>.  The fixed messages of the program are one-token *)
(* texts (written here in English; the source has them in Chinese).        *)
(***************************************************************************)
EXTENDS Naturals, Sequences, FiniteSets

\* Bounds of the model.
MaxLines == 2      \* lines one streamed response delivers at most
MaxEvents == 2     \* events one webhook body decodes to at most

----------------------------------------------------------------------------
\* Fixed texts of the program.

CannedReply == <<"Hello! Please upload the pipe drawing directly; I will analyse it.">>
ProcessingAck == <<"Drawing received; the expert system is analysing it, please wait 15-30 seconds...">>
FallbackSentinel == <<"Analysis finished, but no valid reply was received.">>
ErrorPrefix == "Cannot reach the Dify expert system, please retry later. Error: "

\* f"...{e}": the fixed prefix followed by the text of the exception.
ErrorSentinel(e) == <<ErrorPrefix, e>>

----------------------------------------------------------------------------
\* The environment and the start-up diagnostics.

EnvNames == {"LINE_CHANNEL_SECRET", "LINE_CHANNEL_ACCESS_TOKEN", "DIFY_API_KEY", "DIFY_API_URL"}

Diagnostic(name) == "Specify " \o name \o " as environment variable."

----------------------------------------------------------------------------
\* Streamed lines, as response.iter_lines() yields them.  A line is what the
\* loop body can tell apart: empty or not, decodable as UTF-8 or not, starting
\* with "data:" or not, and what json.loads makes of the rest.

AnswerTexts == {<< >>, <<"a">>, <<"b">>}

\* The payload after "data:".  json: does json.loads accept it; type: the
\* Python type of the value ("dict", "list", "str", or "scalar" for None,
\* numbers and booleans); member: the value of  'answer' in json_data  for a
\* dict (key), list (element) or str (substring); isstr, text: the value
\* under the key "answer" of a dict, a str with that text or not a str.
Payload(json, type, member, isstr, text) ==
    [json |-> json, type |-> type, member |-> member, isstr |-> isstr, text |-> text]

NotJson == Payload(FALSE, "none", FALSE, FALSE, << >>)
JsonScalar == Payload(TRUE, "scalar", FALSE, FALSE, << >>)
JsonList(member) == Payload(TRUE, "list", member, FALSE, << >>)
JsonStr(member) == Payload(TRUE, "str", member, FALSE, << >>)
DictNoAnswer == Payload(TRUE, "dict", FALSE, FALSE, << >>)
DictAnswer(t) == Payload(TRUE, "dict", TRUE, TRUE, t)
DictAnswerNotStr == Payload(TRUE, "dict", TRUE, FALSE, << >>)

Payloads ==
    {NotJson, JsonScalar, JsonList(TRUE), JsonStr(TRUE),
     DictNoAnswer, DictAnswerNotStr}
    \cup {DictAnswer(t) : t \in AnswerTexts}

Line(empty, utf8, data, payload) ==
    [empty |-> empty, utf8 |-> utf8, data |-> data, payload |-> payload]

BlankLine == Line(TRUE, TRUE, FALSE, NotJson)
BadUtf8Line == Line(FALSE, FALSE, FALSE, NotJson)
OtherLine == Line(FALSE, TRUE, FALSE, NotJson)
DataLine(p) == Line(FALSE, TRUE, TRUE, p)

Lines == {BlankLine, BadUtf8Line, OtherLine} \cup {DataLine(p) : p \in Payloads}

----------------------------------------------------------------------------
\* The loop body of call_dify_api on one line: what it does to the
\* accumulator.  op is "skip" (nothing appended, next line), "append" or
\* "raise" (an exception that no except clause of call_dify_api catches).

Effect(op, text, exc) == [op |-> op, text |-> text, exc |-> exc]
Skip == Effect("skip", << >>, "none")

\* full_response += json_data['answer']
AppendAnswer(p) ==
    IF p.isstr THEN Effect("append", p.text, "none")
    ELSE Effect("raise", << >>, "TypeError")

\* if 'answer' in json_data: full_response += json_data['answer']
AnswerOf(p) ==
    CASE p.type = "scalar" -> Effect("raise", << >>, "TypeError")
      [] p.type \in {"list", "str"} ->
            IF p.member THEN Effect("raise", << >>, "TypeError") ELSE Skip
      [] OTHER -> IF p.member THEN AppendAnswer(p) ELSE Skip

OnJsonDecodeErrorUncaught == Effect("raise", << >>, "JSONDecodeError")

\* try: json_data = json.loads(...) ... except json.JSONDecodeError: continue
OnJsonDecodeError == Skip

LineEffect(line) ==
    IF line.empty THEN Skip
    ELSE IF ~line.utf8 THEN Effect("raise", << >>, "UnicodeDecodeError")
    ELSE IF ~line.data THEN Skip
    ELSE IF ~line.payload.json THEN OnJsonDecodeError
    ELSE AnswerOf(line.payload)

\* return full_response if full_response else <fallback>
ReturnValue(acc) == IF acc # << >> THEN acc ELSE FallbackSentinel

----------------------------------------------------------------------------
\* Inbound events and the messaging-platform calls.

Users == {"U1", "U2"}

TextEvent(tok, text) ==
    [type |-> "text", reply_token |-> tok, text |-> text, user_id |-> "U1", message_id |-> "t"]
ImageEvent(tok, user, mid) ==
    [type |-> "image", reply_token |-> tok, text |-> "", user_id |-> user, message_id |-> mid]

Events ==
    {TextEvent("rt0", "hello"), ImageEvent("rt1", "U1", "m1"), ImageEvent("rt2", "U2", "m2")}

Bodies == UNION {[1..n -> Events] : n \in 0..MaxEvents}

\* The binary content the platform holds for a message id.
ContentOf(mid) == "jpeg-of-" \o mid

Images == {ContentOf("m1"), ContentOf("m2")}

Call(api, ev, arg, body) == [api |-> api, ev |-> ev, arg |-> arg, body |-> body]


----------------------------------------------------------------------------
VARIABLES
    environ,            \* the names os.getenv finds set
    s_pc,               \* position of the module-level code
    stdout,             \* what start-up has printed
    handler,            \* WebhookHandler constructed (line 62)
    routes,             \* routes registered on the Flask app
    req,                \* the request callback() is serving
    cb_pc,              \* position of callback()
    response,           \* the HTTP response to req
    evIdx,              \* index in req.events of the event being dispatched
    handled,            \* events of req whose handler has returned
    h_pc,               \* position of the running event handler
    calls,              \* calls the running handler has issued, with arguments
    trace,              \* <<api, event index>> of every call issued for req
    image_bytes,        \* handle_image_message's local
    dify_response_text, \* handle_image_message's local
    d_pc,               \* position of call_dify_api
    d_args,             \* its arguments
    posts,              \* requests.post calls of this invocation
    stream,             \* lines iter_lines() has yielded in this invocation
    ending,             \* how the stream ended
    full_response,      \* call_dify_api's accumulator
    d_result            \* what call_dify_api returned, or the exception raised

startup == <<environ, s_pc, stdout, handler, routes>>
endpoint == <<req, cb_pc, response, evIdx, handled, h_pc, calls, trace, image_bytes,
              dify_response_text>>
dify == <<d_pc, d_args, posts, stream, ending, full_response, d_result>>
vars == <<startup, endpoint, dify>>

NoRequest == [signature |-> "none", events |-> << >>]
NoArgs == [user_id |-> "none", image_bytes |-> "none"]

EndpointIdle ==
    /\ req = NoRequest
    /\ cb_pc = "idle"
    /\ response = "none"
    /\ evIdx = 0
    /\ handled = 0
    /\ h_pc = "none"
    /\ calls = << >>
    /\ trace = << >>
    /\ image_bytes = "none"
    /\ dify_response_text = << >>

DifyIdle ==
    /\ d_pc = "idle"
    /\ d_args = NoArgs
    /\ posts = 0
    /\ stream = << >>
    /\ ending = "none"
    /\ full_response = << >>
    /\ d_result = << >>

\* The process starts with an arbitrary environment, at line 43.
Init ==
    /\ environ \in SUBSET EnvNames
    /\ s_pc = "check_secret"
    /\ stdout = << >>
    /\ handler = FALSE
    /\ routes = {}
    /\ EndpointIdle
    /\ DifyIdle

----------------------------------------------------------------------------
\* Module-level code, lines 43-66 and the decorators.

\* if <name> is None: print(...); sys.exit(1)
CheckEnv(at, name, next) ==
    /\ s_pc = at
    /\ IF name \in environ
         THEN s_pc' = next /\ stdout' = stdout
         ELSE s_pc' = "exited" /\ stdout' = Append(stdout, Diagnostic(name))
    /\ UNCHANGED <<environ, handler, routes, endpoint, dify>>

CheckChannelSecret == CheckEnv("check_secret", "LINE_CHANNEL_SECRET", "check_token")
CheckAccessToken == CheckEnv("check_token", "LINE_CHANNEL_ACCESS_TOKEN", "check_key")
CheckDifyApiKey == CheckEnv("check_key", "DIFY_API_KEY", "check_url")

CheckDifyApiUrlOmitted ==
    /\ s_pc = "check_url"
    /\ s_pc' = "construct"
    /\ UNCHANGED <<environ, stdout, handler, routes, endpoint, dify>>

CheckDifyApiUrl == CheckEnv("check_url", "DIFY_API_URL", "construct")

\* handler = WebhookHandler(channel_secret); configuration = Configuration(...)
Construct ==
    /\ s_pc = "construct"
    /\ handler' = TRUE
    /\ s_pc' = "register"
    /\ UNCHANGED <<environ, stdout, routes, endpoint, dify>>

\* @app.route("/callback", methods=['POST']) and the two @handler.add
RegisterRoute ==
    /\ s_pc = "register"
    /\ routes' = routes \cup {"/callback"}
    /\ s_pc' = "run"
    /\ UNCHANGED <<environ, stdout, handler, endpoint, dify>>

\* app.run(debug=options.debug, port=options.port)
AppRun ==
    /\ s_pc = "run"
    /\ s_pc' = "serving"
    /\ UNCHANGED <<environ, stdout, handler, routes, endpoint, dify>>

----------------------------------------------------------------------------
\* call_dify_api, lines 128-166.

\* except requests.exceptions.RequestException as e: log, return the sentinel
DifyExcept(e) ==
    /\ d_pc' = "returned"
    /\ ending' = e
    /\ d_result' = ErrorSentinel(e)

PostErrors == {"ConnectionError", "Timeout"}

\* response = requests.post(url, ..., stream=True)
DifyPost ==
    /\ d_pc = "post"
    /\ posts' = posts + 1
    /\ \/ /\ d_pc' = "raise_for_status"
          /\ UNCHANGED <<ending, d_result>>
       \/ \E e \in PostErrors : DifyExcept(e)
    /\ UNCHANGED <<d_args, stream, full_response, startup, endpoint>>

\* response.raise_for_status(); full_response = ""
DifyRaiseForStatus ==
    /\ d_pc = "raise_for_status"
    /\ \/ /\ d_pc' = "iter"
          /\ full_response' = << >>
          /\ UNCHANGED <<ending, d_result>>
       \/ /\ DifyExcept("HTTPError")
          /\ UNCHANGED full_response
    /\ UNCHANGED <<d_args, posts, stream, startup, endpoint>>

\* One turn of  for line in response.iter_lines():  with its body.
DifyIterLine ==
    /\ d_pc = "iter"
    /\ Len(stream) < MaxLines
    /\ \E line \in Lines :
         LET eff == LineEffect(line) IN
         /\ stream' = Append(stream, line)
         /\ CASE eff.op = "append" ->
                   /\ full_response' = full_response \o eff.text
                   /\ UNCHANGED <<d_pc, ending, d_result>>
              [] eff.op = "raise" ->
                   /\ d_pc' = "raised"
                   /\ ending' = eff.exc
                   /\ d_result' = <<eff.exc>>
                   /\ UNCHANGED full_response
              [] OTHER ->
                   UNCHANGED <<d_pc, ending, d_result, full_response>>
    /\ UNCHANGED <<d_args, posts, startup, endpoint>>

\* iter_lines() raises while reading the body.
DifyIterFail ==
    /\ d_pc = "iter"
    /\ DifyExcept("ChunkedEncodingError")
    /\ UNCHANGED <<d_args, posts, stream, full_response, startup, endpoint>>

\* The stream ends: return full_response if full_response else <fallback>
DifyIterEnd ==
    /\ d_pc = "iter"
    /\ d_pc' = "returned"
    /\ ending' = "EOF"
    /\ d_result' = ReturnValue(full_response)
    /\ UNCHANGED <<d_args, posts, stream, full_response, startup, endpoint>>

\* call_dify_api invoked on its own, with any arguments.
InitDify ==
    /\ environ = EnvNames
    /\ s_pc = "serving"
    /\ stdout = << >>
    /\ handler = TRUE
    /\ routes = {"/callback"}
    /\ EndpointIdle
    /\ d_pc = "post"
    /\ d_args \in [user_id : Users, image_bytes : Images]
    /\ posts = 0
    /\ stream = << >>
    /\ ending = "none"
    /\ full_response = << >>
    /\ d_result = << >>

NextDify ==
    \/ DifyPost
    \/ DifyRaiseForStatus
    \/ DifyIterLine
    \/ DifyIterFail
    \/ DifyIterEnd

SpecDify == InitDify /\ [][NextDify]_vars


----------------------------------------------------------------------------
\* callback(), lines 68-83, and WebhookHandler.handle as the endpoint uses it.

Signatures == {"absent", "invalid", "valid"}

\* An unhandled exception leaves callback(): Flask answers 500.
Propagate ==
    /\ response' = "500"
    /\ cb_pc' = "responded"
    /\ h_pc' = "none"

\* A POST to /callback arrives (one request at a time): lines 71-75.
\* request.headers[...] on a request without the header is a 400 by itself.
CallbackEnter ==
    /\ s_pc = "serving"
    /\ "/callback" \in routes
    /\ cb_pc = "idle"
    /\ \E sig \in Signatures, body \in Bodies :
         /\ req' = [signature |-> sig, events |-> body]
         /\ IF sig = "absent"
              THEN cb_pc' = "responded" /\ response' = "400"
              ELSE cb_pc' = "handle" /\ response' = "none"
    /\ UNCHANGED <<evIdx, handled, h_pc, calls, trace, image_bytes,
                   dify_response_text, startup, dify>>

\* The response has been sent: the request and every local of its handlers
\* are gone, and the endpoint waits for the next request.
RequestEnd ==
    /\ cb_pc = "responded"
    /\ req' = NoRequest
    /\ cb_pc' = "idle"
    /\ response' = "none"
    /\ evIdx' = 0
    /\ handled' = 0
    /\ h_pc' = "none"
    /\ calls' = << >>
    /\ trace' = << >>
    /\ image_bytes' = "none"
    /\ dify_response_text' = << >>
    /\ d_pc' = "idle"
    /\ d_args' = NoArgs
    /\ posts' = 0
    /\ stream' = << >>
    /\ ending' = "none"
    /\ full_response' = << >>
    /\ d_result' = << >>
    /\ UNCHANGED startup

\* handler.handle(body, signature): the signature is verified before any
\* event is decoded; a bad one raises InvalidSignatureError.
HandleVerify ==
    /\ cb_pc = "handle"
    /\ cb_pc' = IF req.signature = "valid" THEN "dispatch" ELSE "invalid_signature"
    /\ UNCHANGED <<req, response, evIdx, handled, h_pc, calls, trace, image_bytes,
                   dify_response_text, startup, dify>>

CallbackIgnoreInvalid ==
    /\ cb_pc = "invalid_signature"
    /\ response' = "200 OK"
    /\ cb_pc' = "responded"
    /\ UNCHANGED <<req, evIdx, handled, h_pc, calls, trace, image_bytes,
                   dify_response_text, startup, dify>>

\* except InvalidSignatureError: abort(400)
CallbackAbort ==
    /\ cb_pc = "invalid_signature"
    /\ response' = "400"
    /\ cb_pc' = "responded"
    /\ UNCHANGED <<req, evIdx, handled, h_pc, calls, trace, image_bytes,
                   dify_response_text, startup, dify>>

\* handler.handle calls the handler registered for the next event and waits
\* for it to return.
HandleDispatch ==
    /\ cb_pc = "dispatch"
    /\ h_pc = "none"
    /\ evIdx < Len(req.events)
    /\ evIdx' = evIdx + 1
    /\ h_pc' = IF req.events[evIdx + 1].type = "text" THEN "text_reply" ELSE "image_reply"
    /\ calls' = << >>
    /\ image_bytes' = "none"
    /\ dify_response_text' = << >>
    /\ UNCHANGED <<req, cb_pc, response, handled, trace, startup, dify>>

\* handler.handle returns once every event has been dispatched.
HandleReturn ==
    /\ cb_pc = "dispatch"
    /\ h_pc = "none"
    /\ evIdx = Len(req.events)
    /\ cb_pc' = "return"
    /\ UNCHANGED <<req, response, evIdx, handled, h_pc, calls, trace, image_bytes,
                   dify_response_text, startup, dify>>

CallbackReturnEarly ==
    /\ cb_pc \in {"dispatch", "return"}
    /\ response' = "200 OK"
    /\ cb_pc' = "responded"
    /\ h_pc' = "none"
    /\ UNCHANGED <<req, evIdx, handled, calls, trace, image_bytes,
                   dify_response_text, startup, dify>>

\* return 'OK'
CallbackReturn ==
    /\ cb_pc = "return"
    /\ response' = "200 OK"
    /\ cb_pc' = "responded"
    /\ UNCHANGED <<req, evIdx, handled, h_pc, calls, trace, image_bytes,
                   dify_response_text, startup, dify>>

----------------------------------------------------------------------------
\* The event handlers.  A call to the messaging platform is recorded when it
\* is issued; it then returns or raises.

event == req.events[evIdx]

Issue(c) ==
    /\ calls' = Append(calls, c)
    /\ trace' = Append(trace, <<c.api, c.ev>>)

\* The handler returns to handler.handle.
HandlerReturn ==
    /\ h_pc' = "none"
    /\ handled' = handled + 1
    /\ UNCHANGED <<cb_pc, response>>

HandleTextMessageEcho ==
    /\ h_pc = "text_reply"
    /\ Issue(Call("reply_message", evIdx, event.reply_token, <<event.text>>))
    /\ \/ HandlerReturn
       \/ Propagate /\ UNCHANGED handled
    /\ UNCHANGED <<req, evIdx, image_bytes, dify_response_text, startup, dify>>

\* handle_text_message, lines 87-95.
HandleTextMessage ==
    /\ h_pc = "text_reply"
    /\ Issue(Call("reply_message", evIdx, event.reply_token, CannedReply))
    /\ \/ HandlerReturn
       \/ Propagate /\ UNCHANGED handled
    /\ UNCHANGED <<req, evIdx, image_bytes, dify_response_text, startup, dify>>

\* handle_image_message, lines 103-108.
ImageReply ==
    /\ h_pc = "image_reply"
    /\ Issue(Call("reply_message", evIdx, event.reply_token, ProcessingAck))
    /\ \/ h_pc' = "image_content" /\ UNCHANGED <<cb_pc, response>>
       \/ Propagate
    /\ UNCHANGED <<req, evIdx, handled, image_bytes, dify_response_text, startup, dify>>

\* lines 111-112.
ImageGetContent ==
    /\ h_pc = "image_content"
    /\ Issue(Call("get_message_content", evIdx, event.message_id, << >>))
    /\ \/ /\ h_pc' = "image_call"
          /\ image_bytes' = ContentOf(event.message_id)
          /\ UNCHANGED <<cb_pc, response>>
       \/ Propagate /\ UNCHANGED image_bytes
    /\ UNCHANGED <<req, evIdx, handled, dify_response_text, startup, dify>>

ImageCallDifyWithReplyToken ==
    /\ h_pc = "image_call"
    /\ Issue(Call("call_dify_api", evIdx, event.reply_token, <<image_bytes>>))
    /\ h_pc' = "image_wait"
    /\ d_pc' = "post"
    /\ d_args' = [user_id |-> event.reply_token, image_bytes |-> image_bytes]
    /\ posts' = 0
    /\ stream' = << >>
    /\ ending' = "none"
    /\ full_response' = << >>
    /\ d_result' = << >>
    /\ UNCHANGED <<req, cb_pc, response, evIdx, handled, image_bytes,
                   dify_response_text, startup>>

\* lines 115-116: call_dify_api(user_id, image_bytes) is entered.
ImageCallDify ==
    /\ h_pc = "image_call"
    /\ Issue(Call("call_dify_api", evIdx, event.user_id, <<image_bytes>>))
    /\ h_pc' = "image_wait"
    /\ d_pc' = "post"
    /\ d_args' = [user_id |-> event.user_id, image_bytes |-> image_bytes]
    /\ posts' = 0
    /\ stream' = << >>
    /\ ending' = "none"
    /\ full_response' = << >>
    /\ d_result' = << >>
    /\ UNCHANGED <<req, cb_pc, response, evIdx, handled, image_bytes,
                   dify_response_text, startup>>

\* line 116: dify_response_text = <what call_dify_api returned>
ImageDifyReturned ==
    /\ h_pc = "image_wait"
    /\ d_pc = "returned"
    /\ dify_response_text' = d_result
    /\ h_pc' = "image_push"
    /\ UNCHANGED <<req, cb_pc, response, evIdx, handled, calls, trace, image_bytes,
                   startup, dify>>

\* line 116: call_dify_api raised; nothing in handle_image_message catches it.
ImageDifyRaised ==
    /\ h_pc = "image_wait"
    /\ d_pc = "raised"
    /\ Propagate
    /\ UNCHANGED <<req, evIdx, handled, calls, trace, image_bytes,
                   dify_response_text, startup, dify>>

\* lines 119-125.
ImagePush ==
    /\ h_pc = "image_push"
    /\ Issue(Call("push_message", evIdx, event.user_id, dify_response_text))
    /\ \/ HandlerReturn
       \/ Propagate /\ UNCHANGED handled
    /\ UNCHANGED <<req, evIdx, image_bytes, dify_response_text, startup, dify>>

----------------------------------------------------------------------------
Next ==
    \/ CheckChannelSecret
    \/ CheckAccessToken
    \/ CheckDifyApiKey
    \/ CheckDifyApiUrl
    \/ Construct
    \/ RegisterRoute
    \/ AppRun
    \/ CallbackEnter
    \/ RequestEnd
    \/ HandleVerify
    \/ CallbackAbort
    \/ HandleDispatch
    \/ HandleReturn
    \/ CallbackReturn
    \/ HandleTextMessage
    \/ ImageReply
    \/ ImageGetContent
    \/ ImageCallDify
    \/ ImageDifyReturned
    \/ ImageDifyRaised
    \/ ImagePush
    \/ DifyPost
    \/ DifyRaiseForStatus
    \/ DifyIterLine
    \/ DifyIterFail
    \/ DifyIterEnd

Spec == Init /\ [][Next]_vars


----------------------------------------------------------------------------
\* Vocabulary of the properties.

TransportErrors == PostErrors \cup {"HTTPError", "ChunkedEncodingError"}

Finished == d_pc \in {"returned", "raised"}

Range(f) == {f[i] : i \in DOMAIN f}

\* A "data:" line whose payload json.loads accepts.
WellFormed(line) == ~line.empty /\ line.utf8 /\ line.data /\ line.payload.json

\* A "data:" line whose payload json.loads rejects.
Malformed(line) == ~line.empty /\ line.utf8 /\ line.data /\ ~line.payload.json

\* A well-formed frame whose JSON object has the key "answer".
HasAnswerField(line) ==
    WellFormed(line) /\ line.payload.type = "dict" /\ line.payload.member

\* The text a line contributes to the answer: the string under "answer".
AnswerValue(line) ==
    IF HasAnswerField(line) /\ line.payload.isstr THEN line.payload.text ELSE << >>

RECURSIVE ConcatAnswers(_)
ConcatAnswers(lines) ==
    IF lines = << >> THEN << >>
    ELSE AnswerValue(Head(lines)) \o ConcatAnswers(Tail(lines))

RECURSIVE RemoveMalformed(_)
RemoveMalformed(lines) ==
    IF lines = << >> THEN << >>
    ELSE IF Malformed(Head(lines)) THEN RemoveMalformed(Tail(lines))
    ELSE <<Head(lines)>> \o RemoveMalformed(Tail(lines))

\* call_dify_api as a function of the lines delivered and of how the stream
\* ended: <<"returned", text>> or <<"raised", <<exception>>>>.
RECURSIVE Aggregate(_, _, _)
Aggregate(lines, acc, end) ==
    IF lines = << >>
      THEN IF end \in TransportErrors
             THEN <<"returned", ErrorSentinel(end)>>
             ELSE <<"returned", ReturnValue(acc)>>
      ELSE LET eff == LineEffect(Head(lines)) IN
           CASE eff.op = "raise" -> <<"raised", <<eff.exc>>>>
             [] eff.op = "append" -> Aggregate(Tail(lines), acc \o eff.text, end)
             [] OTHER -> Aggregate(Tail(lines), acc, end)

----------------------------------------------------------------------------
\* C1: for every sequence of lines delivered without transport failure the
\* accumulator starts empty, is at every moment the concatenation, in arrival
\* order, of the "answer" values delivered so far (so it only grows by
\* appending), and when some well-formed frame carries a non-empty "answer"
\* call_dify_api returns the concatenation of the "answer" values.
C1_ConcatenationReturned ==
    /\ d_pc \in {"post", "raise_for_status"} => full_response = << >>
    /\ d_pc = "iter" => full_response = ConcatAnswers(stream)
    /\ ( /\ Finished
         /\ ending \notin TransportErrors
         /\ \E i \in DOMAIN stream :
               HasAnswerField(stream[i]) /\ AnswerValue(stream[i]) # << >> )
       => d_pc = "returned" /\ d_result = ConcatAnswers(stream)

C3_FallbackReturned ==
    /\ ( /\ Finished
         /\ ending \notin TransportErrors
         /\ \A i \in DOMAIN stream : ~HasAnswerField(stream[i]) )
       => d_pc = "returned" /\ d_result = FallbackSentinel
    /\ (Finished /\ ending \notin TransportErrors)
       => d_pc = "returned" /\ d_result # << >>

\* C4: a transport failure makes call_dify_api return the error sentinel
\* with the failure detail, call_dify_api never raises to its caller, and it
\* posts at most once.
C4_NeverRaises ==
    /\ posts <= 1
    /\ d_pc # "raised"
    /\ ending \in TransportErrors
          => d_pc = "returned" /\ d_result = ErrorSentinel(ending)

\* The two states of the aggregator, and what else call_dify_api can be in.
AggregatorState ==
    CASE d_pc = "idle" -> "NOT_INVOKED"
      [] d_pc \in {"post", "raise_for_status", "iter"} -> "STREAMING"
      [] d_pc = "returned" -> "DONE"
      [] OTHER -> "FAULTED"

\* C10: the aggregator is STREAMING or DONE and nothing else; every
\* invocation ends DONE with one returned string: the concatenation up to
\* EOF, the fallback sentinel or the error sentinel; after a transport failure
\* it is the error sentinel, with none of the accumulated text in it.
C10_TwoStatesOneString ==
    /\ AggregatorState \in {"NOT_INVOKED", "STREAMING", "DONE"}
    /\ AggregatorState = "DONE" =>
          /\ d_result \in {ConcatAnswers(stream), FallbackSentinel, ErrorSentinel(ending)}
          /\ ending \in TransportErrors =>
                /\ d_result = ErrorSentinel(ending)
                /\ \A i \in DOMAIN full_response : full_response[i] \notin Range(d_result)

----------------------------------------------------------------------------
\* C5: when the signature of a POST to /callback does not verify, the
\* response is 400 and nothing runs for that request: no handler, no reply,
\* no content fetch, no analysis call, no push.
C5_InvalidSignatureRejected ==
    (req.signature = "invalid") =>
        /\ trace = << >>
        /\ calls = << >>
        /\ evIdx = 0
        /\ h_pc = "none"
        /\ d_pc = "idle"
        /\ posts = 0
        /\ response \in {"none", "400"}
        /\ cb_pc = "responded" => response = "400"

C5_Witness ==
    /\ req.signature = "invalid"
    /\ response = "400"
    /\ \E i \in DOMAIN req.events : req.events[i].type = "image"

\* C6: the calls handle_image_message has issued for its event are always
\* an initial part of: reply(processing) with the event's reply token, fetch
\* of the content by the event's message id, call_dify_api with the event's
\* user id and the fetched bytes, push to that user id of exactly what
\* call_dify_api returned.
ExpectedImageCalls ==
    << Call("reply_message", evIdx, event.reply_token, ProcessingAck),
       Call("get_message_content", evIdx, event.message_id, << >>),
       Call("call_dify_api", evIdx, event.user_id, <<ContentOf(event.message_id)>>),
       Call("push_message", evIdx, event.user_id, d_result) >>

C6_ImageStepsInOrder ==
    (evIdx >= 1 /\ event.type = "image") =>
        /\ Len(calls) <= 4
        /\ \A i \in DOMAIN calls : calls[i] = ExpectedImageCalls[i]
        /\ Len(calls) >= 3 =>
              d_args = [user_id |-> event.user_id, image_bytes |-> ContentOf(event.message_id)]
        /\ Len(calls) = 4 => d_pc = "returned"
        /\ d_pc \in {"post", "raise_for_status", "iter"} => Len(calls) = 3
        /\ handled = evIdx => Len(calls) = 4

C6_Witness ==
    /\ evIdx >= 1
    /\ event.type = "image"
    /\ Len(calls) = 4
    /\ ending \in TransportErrors
    /\ calls[4].body = ErrorSentinel(ending)
    /\ handled = evIdx

\* C7: "200 OK" is the response only when every event of the body has been
\* handled to its end (an image event: to its push), a request whose events
\* were all handled is answered "200 OK", and the events are handled one at a
\* time in order.
C7_OkAfterDispatch ==
    /\ response = "200 OK" =>
          /\ req.signature = "valid"
          /\ handled = Len(req.events)
          /\ evIdx = Len(req.events)
          /\ h_pc = "none"
          /\ \A i \in DOMAIN req.events :
                req.events[i].type = "image" => <<"push_message", i>> \in Range(trace)
    /\ (cb_pc = "responded" /\ req.signature = "valid" /\ handled = Len(req.events))
          => response = "200 OK"
    /\ \A j \in DOMAIN trace : trace[j][2] <= evIdx
    /\ \A j, k \in DOMAIN trace : j <= k => trace[j][2] <= trace[k][2]
    /\ h_pc # "none" => handled = evIdx - 1
    /\ d_pc \in {"post", "raise_for_status", "iter"} => h_pc = "image_wait"

C7_Witness ==
    /\ response = "200 OK"
    /\ Len(req.events) = 2
    /\ req.events[1].type = "image"
    /\ req.events[2].type = "image"
    /\ Len(trace) = 8

\* C8: a dispatched text event gets exactly one reply, the canned string
\* with the event's reply token, and nothing else is issued for it: no
\* content fetch, no analysis call, no push.
C8_TextReplyOnly ==
    /\ (evIdx >= 1 /\ event.type = "text") =>
          /\ h_pc \in {"none", "text_reply"}
          /\ IF h_pc = "text_reply" /\ cb_pc = "dispatch"
               THEN calls = << >>
               ELSE calls = <<Call("reply_message", evIdx, event.reply_token, CannedReply)>>
          /\ d_pc = "idle" \/ \E i \in 1..(evIdx - 1) : req.events[i].type = "image"
    /\ \A j \in DOMAIN trace :
          req.events[trace[j][2]].type = "text" =>
              /\ trace[j][1] = "reply_message"
              /\ \A k \in DOMAIN trace : trace[k][2] = trace[j][2] => k = j

C8_Witness ==
    /\ evIdx = 2
    /\ event.type = "text"
    /\ req.events[1].type = "text"
    /\ handled = 2
    /\ calls = <<Call("reply_message", 2, event.reply_token, CannedReply)>>
    /\ trace = <<<<"reply_message", 1>>, <<"reply_message", 2>>>>

\* C9: with any of the four values missing, start-up stops at the first
\* missing one with its diagnostic: the handler is never constructed, the
\* route never registered, no request served.
Required == <<"LINE_CHANNEL_SECRET", "LINE_CHANNEL_ACCESS_TOKEN", "DIFY_API_KEY", "DIFY_API_URL">>

C9_MissingConfigStops ==
    (environ # EnvNames) =>
        /\ s_pc \in {"check_secret", "check_token", "check_key", "check_url", "exited"}
        /\ ~handler
        /\ routes = {}
        /\ cb_pc = "idle"
        /\ response = "none"
        /\ req = NoRequest
        /\ s_pc = "exited" =>
              \E i \in 1..4 :
                 /\ Required[i] \notin environ
                 /\ \A j \in 1..(i - 1) : Required[j] \in environ
                 /\ stdout = <<Diagnostic(Required[i])>>
        /\ s_pc # "exited" => stdout = << >>

C9_Witness ==
    /\ environ = EnvNames \ {"DIFY_API_URL"}
    /\ s_pc = "exited"
    /\ stdout = <<"Specify DIFY_API_URL as environment variable.">>

====
